---- MODULE Spec2Model ----
(***************************************************************************)
(* Per-call session engine of the Genesys AudioHook <-> UltraVox bridge:   *)
(* Session (src/src/websocket/session.ts, second class body), the open /   *)
(* ping / playbackCompleted handlers, UltraVoxAgent and Timer.             *)
(*                                                                         *)
(* The program state is kept in one variable per field.  Every method is   *)
(* an operator from a world record (all fields) to a world record, so that *)
(* the sequential code of a handler is the composition of the operators of *)
(* the calls it makes; an action applies one handler to the current world  *)
(* and commits the result.                                                 *)
(***************************************************************************)
EXTENDS Integers, Sequences, FiniteSets, TLC

\* ---------------------------------------------------------------- bounds
\* configured frame sizes (environment-variables.ts reads them from the
\* environment); the model runs a deployment configured with small sizes
MIN_BINARY_MESSAGE_SIZE == 3
MAXIMUM_BINARY_MESSAGE_SIZE == 4
\* bytes of agent audio offered over a run; byte i is the i-th byte offered
MaxBytes == 5
\* text frames written to the peer over a run
MaxTextFrames == 2
\* highest client sequence number an inbound message carries
MaxClientSeq == 2
\* delayed flushes pending at once
MaxFlushTimers == 1
\* no-input callbacks counted
MaxCallbacks == 2
\* envelopes built over a run
MaxServerSeq == 3
\* values one sample takes through the codec, the first included
MaxTrail == 5
\* samples in one input of resampleAudio
MaxSamples == 3
\* inbound audio frames handed to the agent over a run
MaxInbound == 2
MaxFrameBytes == 4
MaxStreamFrames == 4
\* the samples of one upstream frame (20 ms at 48 kHz in the program), scaled
frameSize == 8

Undefined == "undefined"
Null == "null"
\* a numeric field that is absent from a message
UndefinedNum == 0 - 1
\* selectedMedia before the handshake
NoMedia == [format |-> "", rate |-> 0, channels |-> <<>>]

\* ---------------------------------------------------------------- state
VARIABLES
  \* Session fields
  closed, disconnecting, clientSessionId, conversationId,
  lastServerSequenceNumber, lastClientSequenceNumber,
  inputVariables, selectedMedia, isAudioPlaying, buffer,
  sendIntervalElapsed, voiceAIAgentClient, isCapturingDTMF, dtmfService,
  \* UltraVoxAgent fields
  isInitializing, ultraVoxWs, initPc, noInputTimer,
  audioBuffer, audioStreamingTask,
  \* environment: configuration, upstream socket, event loop
  botProvider, upstream, timeouts, flushTimers,
  \* observation: transport log, envelopes built, bytes offered, last call
  log, built, nextByte, callbacks, timerPhase, last,
  \* audio conversion: the values one sample takes through the mu-law codec,
  \* and one call of resampleAudio
  codec, resampler

sessionVars == << closed, disconnecting, clientSessionId, conversationId,
           lastServerSequenceNumber, lastClientSequenceNumber,
           inputVariables, selectedMedia, isAudioPlaying, buffer,
           sendIntervalElapsed, voiceAIAgentClient, isCapturingDTMF, dtmfService,
           isInitializing, ultraVoxWs, initPc, noInputTimer,
           audioBuffer, audioStreamingTask,
           botProvider, upstream, timeouts, flushTimers,
           log, built, nextByte, callbacks, timerPhase, last >>

vars == << sessionVars, codec, resampler >>

NoEnvelope ==
  [ id |-> "", version |-> "2", seq |-> 0, clientseq |-> 0, type |-> "",
    parameters |-> [reason |-> "", info |-> "", entity |-> "", media |-> <<>>] ]

\* the current world as a record
Cur ==
  [ closed |-> closed, disconnecting |-> disconnecting,
    clientSessionId |-> clientSessionId, conversationId |-> conversationId,
    lastServerSequenceNumber |-> lastServerSequenceNumber,
    lastClientSequenceNumber |-> lastClientSequenceNumber,
    inputVariables |-> inputVariables, selectedMedia |-> selectedMedia,
    isAudioPlaying |-> isAudioPlaying, buffer |-> buffer,
    sendIntervalElapsed |-> sendIntervalElapsed,
    voiceAIAgentClient |-> voiceAIAgentClient,
    isCapturingDTMF |-> isCapturingDTMF, dtmfService |-> dtmfService,
    isInitializing |-> isInitializing, ultraVoxWs |-> ultraVoxWs,
    initPc |-> initPc, noInputTimer |-> noInputTimer,
    audioBuffer |-> audioBuffer, audioStreamingTask |-> audioStreamingTask,
    botProvider |-> botProvider, upstream |-> upstream,
    timeouts |-> timeouts, flushTimers |-> flushTimers,
    log |-> log, built |-> built, nextByte |-> nextByte,
    callbacks |-> callbacks, timerPhase |-> timerPhase, last |-> last,
    \* register: the value createMessage returned last
    message |-> NoEnvelope ]

Commit(w) ==
  /\ closed' = w.closed
  /\ disconnecting' = w.disconnecting
  /\ clientSessionId' = w.clientSessionId
  /\ conversationId' = w.conversationId
  /\ lastServerSequenceNumber' = w.lastServerSequenceNumber
  /\ lastClientSequenceNumber' = w.lastClientSequenceNumber
  /\ inputVariables' = w.inputVariables
  /\ selectedMedia' = w.selectedMedia
  /\ isAudioPlaying' = w.isAudioPlaying
  /\ buffer' = w.buffer
  /\ sendIntervalElapsed' = w.sendIntervalElapsed
  /\ voiceAIAgentClient' = w.voiceAIAgentClient
  /\ isCapturingDTMF' = w.isCapturingDTMF
  /\ dtmfService' = w.dtmfService
  /\ isInitializing' = w.isInitializing
  /\ ultraVoxWs' = w.ultraVoxWs
  /\ initPc' = w.initPc
  /\ noInputTimer' = w.noInputTimer
  /\ botProvider' = w.botProvider
  /\ upstream' = w.upstream
  /\ timeouts' = w.timeouts
  /\ flushTimers' = w.flushTimers
  /\ log' = w.log
  /\ built' = w.built
  /\ nextByte' = w.nextByte
  /\ callbacks' = w.callbacks
  /\ timerPhase' = w.timerPhase
  /\ audioBuffer' = w.audioBuffer
  /\ audioStreamingTask' = w.audioStreamingTask
  /\ last' = w.last
  /\ UNCHANGED << codec, resampler >>

\* ---------------------------------------------------------------- values
PCMU_A == [format |-> "PCMU", rate |-> 8000, channels |-> <<"external">>]
PCMU_B == [format |-> "PCMU", rate |-> 8000, channels |-> <<"external", "internal">>]
PCMU_16K == [format |-> "PCMU", rate |-> 16000, channels |-> <<"external">>]
OPUS_16K == [format |-> "OPUS", rate |-> 16000, channels |-> <<"external">>]

NoParameters == [reason |-> "", info |-> "", entity |-> "", media |-> <<>>]

RECURSIVE TotalLength(_)
\* this.buffer.reduce((acc, curr) => acc + curr.length, 0)
TotalLength(chunks) ==
  IF chunks = <<>> THEN 0 ELSE Len(Head(chunks)) + TotalLength(Tail(chunks))

RECURSIVE Concat(_)
\* bytes.set(byteArray, offset) for each chunk of the buffer, in order
Concat(chunks) ==
  IF chunks = <<>> THEN <<>> ELSE Head(chunks) \o Concat(Tail(chunks))

\* one call of ws.send / one upstream call start, as the transport sees it;
\* seq 0 marks a text frame that carries no envelope
TextEntry(w, m) ==
  [ k |-> "text", type |-> m.type, seq |-> m.seq, clientseq |-> m.clientseq,
    parameters |-> m.parameters, bytes |-> <<>>,
    pending |-> TotalLength(w.buffer), mark |-> w.nextByte ]

BinaryEntry(w, bytes) ==
  [ k |-> "binary", type |-> "", seq |-> 0, clientseq |-> 0,
    parameters |-> NoParameters, bytes |-> bytes,
    pending |-> TotalLength(w.buffer), mark |-> w.nextByte ]

UpstreamCallEntry(w) ==
  [ k |-> "createCall", type |-> "", seq |-> 0, clientseq |-> 0,
    parameters |-> NoParameters, bytes |-> <<>>,
    pending |-> TotalLength(w.buffer), mark |-> w.nextByte ]

\* one call of close() on the agent ("agent") or on the telephony socket
\* ("transport"), made by Session.close()
CloseEntry(w, target) ==
  [ k |-> "close", type |-> target, seq |-> 0, clientseq |-> 0,
    parameters |-> NoParameters, bytes |-> <<>>,
    pending |-> TotalLength(w.buffer), mark |-> w.nextByte ]

\* one call of processAudio on the agent; type tells whether the agent was
\* connected and sent the converted frame upstream
ProcessAudioEntry(w, data, sent) ==
  [ k |-> "processAudio", type |-> IF sent THEN "sent" ELSE "dropped",
    seq |-> 0, clientseq |-> 0, parameters |-> NoParameters, bytes |-> data,
    pending |-> TotalLength(w.buffer), mark |-> w.nextByte ]

\* one call of ultraVoxWs.send with a JSON message of the given type
UpstreamEntry(w, type) ==
  [ k |-> "upstream", type |-> type, seq |-> 0, clientseq |-> 0,
    parameters |-> NoParameters, bytes |-> <<>>,
    pending |-> TotalLength(w.buffer), mark |-> w.nextByte ]

Min(a, b) == IF a < b THEN a ELSE b

\* ------------------------------------------------------------- codec
\* no sample is being converted
NoSample == [first |-> "none", trail |-> <<>>]

\* value & mask for a mask of one bit, value >= 0
BitSet(value, mask) == (value \div mask) % 2 = 1

\* ulawToPcm(ulaw) for a byte: the low eight bits of ~ulaw are 255 - ulaw
ulawToPcm(ulaw) ==
  LET inverted == 255 - ulaw
      sign == BitSet(inverted, 128)
      exponent == (inverted \div 16) % 8
      mantissa == inverted % 16
      sample == mantissa * 2^(exponent + 3) + 132
                  + (IF exponent # 0 THEN 2^(exponent + 2) ELSE 0)
  IN IF sign THEN 0 - sample ELSE sample

\* the while loop of pcmToUlaw
RECURSIVE ExponentOf(_, _, _)
ExponentOf(pcm, exponent, expMask) ==
  IF ~ BitSet(pcm, expMask) /\ exponent > 0
  THEN ExponentOf(pcm, exponent - 1, expMask \div 2)
  ELSE exponent

\* pcmToUlaw(pcm) for a 16-bit sample: BIAS 0x84, CLIP 8159
pcmToUlaw(pcm) ==
  LET biased == IF pcm < 0 THEN 132 - pcm ELSE 132 + pcm
      clipped == IF biased > 8159 THEN 8159 ELSE biased
      exponent == ExponentOf(clipped, 7, 16384)
      mantissa == (clipped \div 2^(exponent + 3)) % 16
  IN 255 - (exponent * 16 + mantissa)

\* the element of an Int16Array over two bytes, low byte first
Int16Of(lo, hi) ==
  LET u == lo + 256 * hi
  IN IF u >= 32768 THEN u - 65536 ELSE u

\* convertPCMToPCMU(pcmData) for a buffer of even length: one mu-law byte
\* for each element of new Int16Array(pcmData.buffer)
convertPCMToPCMU(pcmData) ==
  [i \in 1..(Len(pcmData) \div 2) |->
     pcmToUlaw(Int16Of(pcmData[2 * i - 1], pcmData[2 * i]))]

\* --------------------------------------------------------- resampler
\* no call of resampleAudio was made
NoResample ==
  [input |-> <<>>, inputSampleRate |-> 0, outputSampleRate |-> 0,
   output |-> <<>>, returned |-> FALSE]

\* Math.round(numerator / denominator), denominator > 0: ties go up
Round(numerator, denominator) ==
  (2 * numerator + denominator) \div (2 * denominator)

\* input[index] || 0, index counted from 0
SampleAt(input, index) ==
  IF index + 1 \in DOMAIN input THEN input[index + 1] ELSE 0

\* resampleAudio always converting to the 8000 Hz of the telephony side
resampleAudio_FixedTarget(input, inputSampleRate, outputSampleRate) ==
  LET outputLength == (Len(input) * 8000) \div inputSampleRate
  IN [ n \in 1..outputLength |->
         LET i == n - 1
             srcIndexFloor == (i * inputSampleRate) \div 8000
             srcIndexCeil == Min(srcIndexFloor + 1, Len(input) - 1)
             sample1 == SampleAt(input, srcIndexFloor)
             sample2 == SampleAt(input, srcIndexCeil)
         IN Round(sample1 * 8000
                    + (sample2 - sample1) * ((i * inputSampleRate) % 8000),
                  8000) ]

\* resampleAudio(input, inputSampleRate, outputSampleRate): the rates of the
\* model are powers of two apart, so that ratio, srcIndex and fraction are
\* exact in double arithmetic and fraction is
\* ((i * inputSampleRate) % outputSampleRate) / outputSampleRate
resampleAudio(input, inputSampleRate, outputSampleRate) ==
  IF inputSampleRate = outputSampleRate THEN input
  ELSE LET outputLength == (Len(input) * outputSampleRate) \div inputSampleRate
       IN [ n \in 1..outputLength |->
              LET i == n - 1
                  srcIndexFloor == (i * inputSampleRate) \div outputSampleRate
                  srcIndexCeil == Min(srcIndexFloor + 1, Len(input) - 1)
                  sample1 == SampleAt(input, srcIndexFloor)
                  sample2 == SampleAt(input, srcIndexCeil)
              IN Round(sample1 * outputSampleRate
                         + (sample2 - sample1)
                             * ((i * inputSampleRate) % outputSampleRate),
                       outputSampleRate) ]

\* ----------------------------------------------------------- Session
\* isProductionConnection(): conversationId set, or an id naming audiohook
isProductionConnection(w) ==
  \/ w.conversationId # Undefined
  \/ w.clientSessionId = "audiohook-7f3a"

Envelope(w, type, parameters) ==
  [ id |-> w.clientSessionId, version |-> "2",
    seq |-> w.lastServerSequenceNumber + 1,
    clientseq |-> w.lastClientSequenceNumber,
    type |-> type, parameters |-> parameters ]

\* createMessage reading the counter without advancing it
createMessage_SameSeq(w, type, parameters) ==
  [w EXCEPT !.message = Envelope(w, type, parameters),
            !.built = Append(@, Envelope(w, type, parameters).seq)]

\* createMessage(type, parameters): seq: ++this.lastServerSequenceNumber;
\* the envelope returned is the last element of built
createMessage(w, type, parameters) ==
  [w EXCEPT !.lastServerSequenceNumber = @ + 1,
            !.message = Envelope(w, type, parameters),
            !.built = Append(@, Envelope(w, type, parameters).seq)]

\* the envelope the last createMessage returned
Built(w) == w.message

\* send(message): nothing if closed, else ws.send(JSON.stringify(message))
send(w, m) ==
  IF w.closed THEN w ELSE [w EXCEPT !.log = Append(@, TextEntry(w, m))]

sendDisconnect(w, reason, info) ==
  LET w1 == [w EXCEPT !.disconnecting = TRUE]
      w2 == createMessage(w1, "disconnect",
                          [NoParameters EXCEPT !.reason = reason, !.info = info])
  IN send(w2, Built(w2))

RECURSIVE Chunks(_, _)
\* the while loop of sendAudioChunks from currentPosition
Chunks(bytes, currentPosition) ==
  IF currentPosition < Len(bytes)
  THEN << SubSeq(bytes, currentPosition + 1,
                 Min(currentPosition + MAXIMUM_BINARY_MESSAGE_SIZE, Len(bytes))) >>
       \o Chunks(bytes, currentPosition + MAXIMUM_BINARY_MESSAGE_SIZE)
  ELSE <<>>

RECURSIVE WriteBinary(_, _)
\* ws.send(sendBytes, {binary: true}) for each frame, in order
WriteBinary(w, frames) ==
  IF frames = <<>> THEN w
  ELSE WriteBinary([w EXCEPT !.log = Append(@, BinaryEntry(w, Head(frames)))],
                   Tail(frames))

\* sendAudioChunks writing the first chunk only
sendAudioChunks_FirstChunk(w, bytes) ==
  WriteBinary(w, << SubSeq(bytes, 1, Min(Len(bytes), MAXIMUM_BINARY_MESSAGE_SIZE)) >>)

sendAudioChunks(w, bytes) ==
  IF Len(bytes) <= MAXIMUM_BINARY_MESSAGE_SIZE
  THEN WriteBinary(w, << bytes >>)
  ELSE WriteBinary(w, Chunks(bytes, 0))

\* flushBuffer writing the buffer without emptying it
flushBuffer_KeepBuffer(w) ==
  IF TotalLength(w.buffer) <= 0 THEN w
  ELSE sendAudioChunks(w, Concat(w.buffer))

flushBuffer(w) ==
  IF TotalLength(w.buffer) <= 0 THEN w
  ELSE sendAudioChunks([w EXCEPT !.buffer = <<>>], Concat(w.buffer))

\* now - this.lastAudioSendTime < this.MIN_SEND_INTERVAL
Throttled(w) == ~ w.sendIntervalElapsed

\* sendAudio buffering a short chunk without scheduling the flush
sendAudio_NoFlush(w, currBytes) ==
  IF w.closed THEN w
  ELSE IF Throttled(w) THEN w
  ELSE LET w1 == [w EXCEPT !.sendIntervalElapsed = FALSE,
                           !.buffer = Append(@, currBytes)]
       IN IF TotalLength(w1.buffer) < MIN_BINARY_MESSAGE_SIZE
          THEN w1
          ELSE sendAudioChunks([w1 EXCEPT !.buffer = <<>>], Concat(w1.buffer))

sendAudio(w, currBytes) ==
  IF w.closed THEN w
  ELSE IF Throttled(w) THEN w
  ELSE LET w1 == [w EXCEPT !.sendIntervalElapsed = FALSE,
                           !.buffer = Append(@, currBytes)]
       IN IF TotalLength(w1.buffer) < MIN_BINARY_MESSAGE_SIZE
          THEN [w1 EXCEPT !.flushTimers = @ + 1]
          ELSE sendAudioChunks([w1 EXCEPT !.buffer = <<>>], Concat(w1.buffer))

\* the binary branch of handleUltraVoxMessage: new Int16Array(buffer) throws
\* a RangeError for a buffer of odd length, which the catch block logs
handleUltraVoxBinary(w, data) ==
  IF Len(data) % 2 # 0 THEN [w EXCEPT !.last.threw = TRUE]
  ELSE sendAudio(w, convertPCMToPCMU(data))

sendAudioFromAgent(w, audioData) ==
  IF w.closed THEN w ELSE sendAudio(w, audioData)

\* sendBargeIn writing the event before it clears the buffer
sendBargeIn_SendFirst(w) ==
  LET w1 == createMessage(w, "event", [NoParameters EXCEPT !.entity = "barge_in"])
      w2 == send(w1, Built(w1))
  IN [w2 EXCEPT !.buffer = <<>>]

\* sendBargeIn leaving the buffer as it is
sendBargeIn_KeepBuffer(w) ==
  LET w1 == createMessage(w, "event", [NoParameters EXCEPT !.entity = "barge_in"])
  IN send(w1, Built(w1))

sendBargeIn(w) ==
  LET w1 == createMessage(w, "event", [NoParameters EXCEPT !.entity = "barge_in"])
      w2 == [w1 EXCEPT !.buffer = <<>>]
  IN send(w2, Built(w1))

sendTranscript(w) ==
  IF w.selectedMedia.channels = <<>> THEN w
  ELSE LET w1 == createMessage(w, "event",
                               [NoParameters EXCEPT !.entity = "transcript"])
       IN send(w1, Built(w1))

setIsAudioPlaying(w, playing) == [w EXCEPT !.isAudioPlaying = playing]

\* ------------------------------------------------------------- Timer
\* setTimeout returns a handle that no pending timeout and no field holds
NewTimeout(w) ==
  CHOOSE i \in 1..(Cardinality(w.timeouts) + 2) :
    /\ i \notin w.timeouts
    /\ w.noInputTimer.timerId # i
    /\ \A j \in 1..(i - 1) : j \in w.timeouts \/ w.noInputTimer.timerId = j

stopTimer(w) ==
  IF w.noInputTimer.timerId # 0
  THEN [w EXCEPT !.timeouts = @ \ {w.noInputTimer.timerId},
                 !.noInputTimer.timerId = 0]
  ELSE w

\* startTimer without the timerHalted test
startTimer_IgnoreHalt(w) ==
  LET w1 == stopTimer(w)
      id == NewTimeout(w1)
  IN [w1 EXCEPT !.timeouts = @ \cup {id},
                !.noInputTimer.timerId = id,
                !.timerPhase = IF @ = "resumed" THEN "started" ELSE @]

\* startTimer scheduling without stopping the pending timeout first
startTimer_KeepPrevious(w) ==
  IF w.noInputTimer.timerHalted THEN w
  ELSE LET id == NewTimeout(w)
       IN [w EXCEPT !.timeouts = @ \cup {id},
                    !.noInputTimer.timerId = id,
                    !.timerPhase = IF @ = "resumed" THEN "started" ELSE @]

startTimer(w) ==
  IF w.noInputTimer.timerHalted THEN w
  ELSE LET w1 == stopTimer(w)
           id == NewTimeout(w1)
       IN [w1 EXCEPT !.timeouts = @ \cup {id},
                     !.noInputTimer.timerId = id,
                     !.timerPhase = IF @ = "resumed" THEN "started" ELSE @]

\* haltTimer setting the flag and leaving the pending timeout alone
haltTimer_KeepPending(w) ==
  [w EXCEPT !.noInputTimer.timerHalted = TRUE, !.timerPhase = "halted"]

haltTimer(w) ==
  stopTimer([w EXCEPT !.noInputTimer.timerHalted = TRUE,
                      !.timerPhase = "halted"])

\* resumeTimer clearing the flag and leaving the pending timeout alone
resumeTimer_KeepPending(w) ==
  [w EXCEPT !.noInputTimer.timerHalted = FALSE,
            !.timerPhase = IF @ = "halted" THEN "resumed" ELSE @]

resumeTimer(w) ==
  stopTimer([w EXCEPT !.noInputTimer.timerHalted = FALSE,
                      !.timerPhase = IF @ = "halted" THEN "resumed" ELSE @])

\* ----------------------------------------------------- UltraVoxAgent
\* isAgentConnected(): the socket exists and its readyState is OPEN
isAgentConnected(w) == w.ultraVoxWs # Null /\ w.upstream = "open"

\* new UltraVoxAgent(session): the base constructor makes the Timer, then
\* initializeUltraVoxCall() runs up to the fetch of createCall()
NewUltraVoxAgent(w) ==
  [w EXCEPT !.voiceAIAgentClient = "UltraVoxAgent",
            !.noInputTimer = [timerHalted |-> FALSE, timerId |-> 0],
            !.isInitializing = TRUE,
            !.initPc = "createCall",
            !.log = Append(@, UpstreamCallEntry(w))]

\* a catch block that starts the call creation again instead of reporting
InitializationFailed_Retry(w) ==
  [w EXCEPT !.initPc = "createCall",
            !.ultraVoxWs = Null,
            !.log = Append(@, UpstreamCallEntry(w))]

\* the catch and finally blocks of initializeUltraVoxCall
InitializationFailed(w) ==
  [sendDisconnect(w, "error", "Failed to initialize AI service")
     EXCEPT !.isInitializing = FALSE, !.initPc = "done"]

\* connectWebSocket(joinUrl): new WebSocket, 10 s timeout armed
connectWebSocket(w) ==
  [w EXCEPT !.ultraVoxWs = "ws", !.upstream = "connecting", !.initPc = "connect"]

\* UltraVoxAgent.close()
AgentClose(w) ==
  IF w.ultraVoxWs # Null
  THEN [w EXCEPT !.ultraVoxWs = Null,
                 !.upstream = IF @ = "connecting" THEN "aborting"
                              ELSE IF @ = "open" THEN "closing" ELSE @]
  ELSE w

processPlaybackCompleted(w) == startTimer(w)

\* handleUltraVoxMessage clearing the playing flag without the flush
handleUltraVoxMessage_NoFlush(w, type) ==
  CASE type = "transcript" -> sendTranscript(w)
    [] type = "user_started_speaking" ->
         haltTimer(setIsAudioPlaying(
           IF w.isAudioPlaying THEN sendBargeIn(w) ELSE w, FALSE))
    [] type = "user_stopped_speaking" -> resumeTimer(w)
    [] type = "agent_started_speaking" -> setIsAudioPlaying(w, TRUE)
    [] type = "agent_stopped_speaking" -> setIsAudioPlaying(w, FALSE)
    [] type = "call_ended" -> sendDisconnect(w, "completed", "Call completed")
    [] type = "error" -> sendDisconnect(w, "error", "UltraVox error")
    [] OTHER -> w

handleUltraVoxMessage(w, type) ==
  CASE type = "transcript" -> sendTranscript(w)
    [] type = "user_started_speaking" ->
         haltTimer(setIsAudioPlaying(
           IF w.isAudioPlaying THEN sendBargeIn(w) ELSE w, FALSE))
    [] type = "user_stopped_speaking" -> resumeTimer(w)
    [] type = "agent_started_speaking" -> setIsAudioPlaying(w, TRUE)
    [] type = "agent_stopped_speaking" -> setIsAudioPlaying(flushBuffer(w), FALSE)
    [] type = "call_ended" -> sendDisconnect(w, "completed", "Call completed")
    [] type = "error" -> sendDisconnect(w, "error", "UltraVox error")
    [] OTHER -> w

\* handleUltraVoxMessage of the later agent, which calls sendAudioFromAgent:
\* its switch has no case for call_ended and none for error
handleUltraVoxMessageLater(w, type) ==
  CASE type = "transcript" -> sendTranscript(w)
    [] type = "user_started_speaking" ->
         haltTimer(setIsAudioPlaying(
           IF w.isAudioPlaying THEN sendBargeIn(w) ELSE w, FALSE))
    [] type = "user_stopped_speaking" -> resumeTimer(w)
    [] type = "agent_started_speaking" -> setIsAudioPlaying(w, TRUE)
    [] type = "agent_stopped_speaking" -> setIsAudioPlaying(flushBuffer(w), FALSE)
    [] OTHER -> w

\* ------------------------------------------------- Session, continued
\* VoiceAIAgentFactory.create(BOT_PROVIDER, this) returns for "ultravox"
\* (compared in lower case) and throws for any other name
FactorySupports(name) == name \in {"UltraVox", "ultravox"}

\* initializeVoiceAgent without its test of voiceAIAgentClient
initializeVoiceAgent_Unguarded(w) ==
  IF FactorySupports(w.botProvider) THEN NewUltraVoxAgent(w)
  ELSE sendDisconnect(w, "error", "Failed to initialize AI service")

initializeVoiceAgent(w) ==
  IF w.voiceAIAgentClient # Null THEN w
  ELSE IF FactorySupports(w.botProvider) THEN NewUltraVoxAgent(w)
  ELSE sendDisconnect(w, "error", "Failed to initialize AI service")

\* the body of Session.close() after its closed test: the agent first, if
\* there is one, then the telephony socket, then closed = true
CloseBoth(w) ==
  LET w1 == IF w.voiceAIAgentClient # Null
            THEN AgentClose([w EXCEPT !.log = Append(@, CloseEntry(w, "agent"))])
            ELSE w
  IN [w1 EXCEPT !.log = Append(@, CloseEntry(w1, "transport")),
                !.closed = TRUE]

\* close() without its test of closed
close_Unguarded(w) == CloseBoth(w)

\* Session.close()
close(w) ==
  IF w.closed THEN w
  ELSE CloseBoth(w)

playbackCompleted(w) ==
  LET w1 == setIsAudioPlaying(w, FALSE)
  IN IF w1.voiceAIAgentClient # Null THEN processPlaybackCompleted(w1) ELSE w1

\* UltraVoxAgent.sendKeepAlive(): a ping upstream if the socket is open
UltraVoxAgent_sendKeepAlive(w) ==
  IF isAgentConnected(w)
  THEN [w EXCEPT !.log = Append(@, UpstreamEntry(w, "ping"))]
  ELSE w

\* Session.sendKeepAlive()
sendKeepAlive(w) ==
  LET w1 == createMessage(w, "pong", NoParameters)
      w2 == send(w1, Built(w1))
  IN IF w2.voiceAIAgentClient # Null THEN UltraVoxAgent_sendKeepAlive(w2) ELSE w2

\* the sample rates of the telephony side and of the upstream side
GENESYS_SAMPLE_RATE == 8000
ULTRAVOX_SAMPLE_RATE == 48000

convertPCMUToPCMSamples(pcmuData) ==
  [i \in 1..Len(pcmuData) |-> ulawToPcm(pcmuData[i])]

\* what processAudio of the streaming agent adds to audioBuffer
Resampled(audioPayload) ==
  resampleAudio(convertPCMUToPCMSamples(audioPayload),
                GENESYS_SAMPLE_RATE, ULTRAVOX_SAMPLE_RATE)

\* the streaming agent's processAudio(audioPayload): convert, resample, buffer
processAudioLater(w, audioPayload) ==
  IF ~ isAgentConnected(w)
  THEN [w EXCEPT !.log = Append(@, ProcessAudioEntry(w, audioPayload, FALSE))]
  ELSE [w EXCEPT !.audioBuffer = @ \o Resampled(audioPayload),
                 !.log = Append(@, ProcessAudioEntry(w, audioPayload, TRUE))]

\* one call of ultraVoxWs.send with a frame of samples: taken from the
\* buffer ("audio") or made of zeros ("silence")
AudioFrameEntry(w, type, frame) == [UpstreamEntry(w, type) EXCEPT !.bytes = frame]

\* sendAudioFrame leaving the samples it sent in the buffer
sendAudioFrame_KeepBuffer(w) ==
  IF ~ isAgentConnected(w) THEN w
  ELSE IF Len(w.audioBuffer) >= frameSize
  THEN [w EXCEPT !.log = Append(@, AudioFrameEntry(w, "audio",
                                     SubSeq(w.audioBuffer, 1, frameSize)))]
  ELSE [w EXCEPT !.log = Append(@, AudioFrameEntry(w, "silence",
                                     [i \in 1..frameSize |-> 0]))]

\* sendAudioFrame(frameSize)
sendAudioFrame(w) ==
  IF ~ isAgentConnected(w) THEN w
  ELSE IF Len(w.audioBuffer) >= frameSize
  THEN [w EXCEPT !.audioBuffer = SubSeq(@, frameSize + 1, Len(@)),
                 !.log = Append(@, AudioFrameEntry(w, "audio",
                                     SubSeq(w.audioBuffer, 1, frameSize)))]
  ELSE [w EXCEPT !.log = Append(@, AudioFrameEntry(w, "silence",
                                     [i \in 1..frameSize |-> 0]))]

startContinuousAudioStreaming(w) == [w EXCEPT !.audioStreamingTask = TRUE]
stopContinuousAudioStreaming(w) == [w EXCEPT !.audioStreamingTask = FALSE]

\* UltraVoxAgent.processAudio(audioPayload)
processAudio(w, data) ==
  [w EXCEPT !.log = Append(@, ProcessAudioEntry(w, data, isAgentConnected(w)))]

\* processBinaryMessage without its test of the DTMF capture
processBinaryMessage_IgnoreDTMF(w, data) ==
  IF w.disconnecting \/ w.closed THEN w
  ELSE IF w.voiceAIAgentClient = Null THEN w
  ELSE processAudio(w, data)

\* Session.processBinaryMessage(data)
processBinaryMessage(w, data) ==
  IF w.disconnecting \/ w.closed THEN w
  ELSE IF w.isCapturingDTMF THEN w
  ELSE IF w.voiceAIAgentClient = Null THEN w
  ELSE processAudio(w, data)

\* the final-digits callback of the digit collector
finalDigits(w) == [sendTranscript(w) EXCEPT !.isCapturingDTMF = FALSE]

\* DTMFService.processDigit(digit): the collector gathers digits and, on
\* the terminating digit, completes and emits final-digits
processDigit(w, digit) ==
  IF digit = "#"
  THEN finalDigits([w EXCEPT !.dtmfService = "Complete"])
  ELSE w

\* processDTMF without its test of isAudioPlaying
processDTMF_IgnorePlaying(w, digit) ==
  IF w.disconnecting \/ w.closed THEN w
  ELSE LET w1 == [w EXCEPT !.isCapturingDTMF = TRUE]
           w2 == IF w1.dtmfService \in {Null, "Complete"}
                 THEN [w1 EXCEPT !.dtmfService = "Collecting"]
                 ELSE w1
       IN processDigit(w2, digit)

\* Session.processDTMF(digit)
processDTMF(w, digit) ==
  IF w.disconnecting \/ w.closed THEN w
  ELSE IF w.isAudioPlaying THEN [w EXCEPT !.dtmfService = Null]
  ELSE LET w1 == [w EXCEPT !.isCapturingDTMF = TRUE]
           w2 == IF w1.dtmfService \in {Null, "Complete"}
                 THEN [w1 EXCEPT !.dtmfService = "Collecting"]
                 ELSE w1
       IN processDigit(w2, digit)

\* ---------------------------------------------------- message handlers
\* the last media entry with format PCMU and rate 8000, NoMedia if none
RECURSIVE SelectMedia(_, _)
SelectMedia(media, selected) ==
  IF media = <<>> THEN selected
  ELSE SelectMedia(Tail(media),
                   IF Head(media).format = "PCMU" /\ Head(media).rate = 8000
                   THEN Head(media) ELSE selected)

\* a handler returns the world it leaves and whether it threw
Returned(w) == [w |-> w, threw |-> FALSE]
Threw(w) == [w |-> w, threw |-> TRUE]

\* the agent initialized before the opened message is sent
OpenAccepted_AgentFirst(w, m, selected) ==
  LET w1 == [w EXCEPT !.selectedMedia = selected]
      w2 == IF m.parameters.inputVariables # Undefined
            THEN [w1 EXCEPT !.inputVariables = m.parameters.inputVariables]
            ELSE w1
      w3 == initializeVoiceAgent(w2)
      w4 == createMessage(w3, "opened", [NoParameters EXCEPT !.media = << selected >>])
  IN send(w4, Built(w4))

\* the part of OpenMessageHandler after a supported media entry was found
OpenAccepted(w, m, selected) ==
  LET w1 == [w EXCEPT !.selectedMedia = selected]
      w2 == IF m.parameters.inputVariables # Undefined
            THEN [w1 EXCEPT !.inputVariables = m.parameters.inputVariables]
            ELSE w1
      w3 == createMessage(w2, "opened", [NoParameters EXCEPT !.media = << selected >>])
      w4 == send(w3, Built(w3))
  IN initializeVoiceAgent(w4)

OpenMessageHandler(w, m) ==
  IF ~ m.hasParameters THEN Threw(w)
  ELSE LET w1 == [w EXCEPT !.conversationId = m.parameters.conversationId]
       IN IF ~ m.parameters.hasMedia THEN Threw(w1)
          ELSE LET selected == SelectMedia(m.parameters.media, NoMedia)
               IN IF selected = NoMedia
                  THEN Returned(sendDisconnect(w1, "error",
                                  "No supported media type was found."))
                  ELSE Returned(OpenAccepted(w1, m, selected))

PingMessageHandler(w, m) == Returned(sendKeepAlive(w))

PlaybackCompletedMessageHandler(w, m) == Returned(playbackCompleted(w))

\* MessageHandlerRegistry.getHandler(type)
RegisteredTypes == {"open", "ping", "playbackCompleted"}

handleMessage(w, m) ==
  CASE m.type = "open" -> OpenMessageHandler(w, m)
    [] m.type = "ping" -> PingMessageHandler(w, m)
    [] m.type = "playbackCompleted" -> PlaybackCompletedMessageHandler(w, m)

\* ------------------------------------------------- processTextMessage
isTestConnection(m) ==
  /\ m.type \in {"ping", "test"}
  /\ \/ m.seq = UndefinedNum
     \/ m.id = Undefined
     \/ m.serverseq = UndefinedNum

\* ws.send(JSON.stringify(testResponse)): a pong without an envelope
handleTestMessage(w, m) ==
  [w EXCEPT !.log = Append(@,
     TextEntry(w, [type |-> "pong", seq |-> 0, clientseq |-> 0,
                   parameters |-> [NoParameters EXCEPT !.info = "Test connection successful"]]))]

\* the catch block of processTextMessage
CatchTextError(w) ==
  LET w1 == [w EXCEPT !.last.threw = TRUE]
  IN IF isProductionConnection(w1)
     THEN sendDisconnect(w1, "error", "Message processing error")
     ELSE w1

\* from the handler lookup on
Dispatch(w, m) ==
  IF m.type \notin RegisteredTypes THEN w
  ELSE LET r == handleMessage([w EXCEPT !.last.dispatched = m.type], m)
       IN IF r.threw THEN CatchTextError(r.w) ELSE r.w

\* the serverseq and id checks and what follows them
AfterSeqCheck(w, m) ==
  IF /\ m.serverseq # UndefinedNum
     /\ m.serverseq > w.lastServerSequenceNumber
     /\ isProductionConnection(w)
  THEN sendDisconnect(w, "error", "Invalid server sequence number.")
  ELSE IF /\ m.id # Undefined
          /\ m.id # w.clientSessionId
          /\ isProductionConnection(w)
       THEN sendDisconnect(w, "error", "Invalid ID specified.")
       ELSE Dispatch(w, m)

processTextMessage(w, m) ==
  IF w.closed THEN w
  ELSE IF ~ m.json THEN CatchTextError(w)
  ELSE IF isTestConnection(m) THEN handleTestMessage(w, m)
  ELSE IF /\ m.seq # UndefinedNum
          /\ m.seq # w.lastClientSequenceNumber + 1
          /\ isProductionConnection(w)
       THEN sendDisconnect(w, "error", "Invalid client sequence number.")
       ELSE AfterSeqCheck(
              IF m.seq # UndefinedNum
              THEN [w EXCEPT !.lastClientSequenceNumber = m.seq] ELSE w, m)

\* ------------------------------------------------------------ inputs
SessionIds == {"e4f1-7f3a", "audiohook-7f3a"}
Providers == {"UltraVox", "OpenAI"}

NoOpenParameters ==
  [conversationId |-> Undefined, hasMedia |-> FALSE, media |-> <<>>,
   inputVariables |-> Undefined]

\* parameters of an open message: media absent, unsupported entries only,
\* one supported entry (and no conversation id), or two supported entries
\* with input variables
OpenParameters ==
  { [NoOpenParameters EXCEPT !.conversationId = mi[1], !.hasMedia = mi[2],
                             !.media = mi[3], !.inputVariables = mi[4]] :
      mi \in { << "conv-1", FALSE, <<>>, Undefined >>,
               << "conv-1", TRUE, << OPUS_16K, PCMU_16K >>, Undefined >>,
               << Undefined, TRUE, << PCMU_A, OPUS_16K >>, Undefined >>,
               << "conv-1", TRUE, << PCMU_A, PCMU_B >>, "vars" >> } }

Malformed ==
  [json |-> FALSE, type |-> "", seq |-> UndefinedNum, serverseq |-> UndefinedNum,
   id |-> Undefined, hasParameters |-> FALSE, parameters |-> NoOpenParameters]

\* the envelope fields of the text frames a peer may send to a session in
\* world w: the well-formed head, and each head that departs from it in one
\* field (absent, or a value the session must reject)
Heads(w) ==
  LET good == [seq |-> w.lastClientSequenceNumber + 1,
               serverseq |-> w.lastServerSequenceNumber,
               id |-> w.clientSessionId]
  IN { good,
       [good EXCEPT !.seq = UndefinedNum],
       [good EXCEPT !.seq = w.lastClientSequenceNumber + 2],
       [good EXCEPT !.seq = w.lastClientSequenceNumber],
       [good EXCEPT !.serverseq = w.lastServerSequenceNumber + 1],
       [good EXCEPT !.id = Undefined],
       [good EXCEPT !.id = "other-id"] }

TextMessages(w) ==
  LET With(h, t, has, ps) ==
        [json |-> TRUE, type |-> t, seq |-> h.seq, serverseq |-> h.serverseq,
         id |-> h.id, hasParameters |-> has, parameters |-> ps]
  IN { With(h, t, TRUE, NoOpenParameters) :
         h \in Heads(w), t \in {"ping", "playbackCompleted", "test"} }
     \cup { With(h, "open", FALSE, NoOpenParameters) : h \in Heads(w) }
     \cup { With(h, "open", TRUE, ps) : h \in Heads(w), ps \in OpenParameters }
     \cup { Malformed }

\* the values of a Uint8Array element and of an Int16Array element
Bytes == 0..255
Samples == (0 - 32768)..32767

\* sample rates, and the sample sequences given to resampleAudio
Rates == {8000, 16000, 32000}
SampleValues == {0 - 32768, 0 - 3, 0, 32767}
SampleSeqs == UNION { [1..n -> SampleValues] : n \in 0..MaxSamples }

AudioLens == {1, MIN_BINARY_MESSAGE_SIZE - 1, MAXIMUM_BINARY_MESSAGE_SIZE + 1}

\* upstream control messages: those about the call, those about speech
CallTypes == {"transcript", "call_ended", "error"}
SpeechTypes ==
  {"user_started_speaking", "user_stopped_speaking",
   "agent_started_speaking", "agent_stopped_speaking"}

\* the byte sequences flushBuffer and sendAudio hand to sendAudioChunks:
\* never empty, here up to one byte more than two full frames
ChunkInputs ==
  UNION { [1..n -> {0, 255}] : n \in 1..(2 * MAXIMUM_BINARY_MESSAGE_SIZE + 1) }

\* upstream binary frames: up to two samples, and the frames of odd length
PcmFrames == UNION { [1..n -> {0, 128, 255}] : n \in 1..MaxFrameBytes }

\* inbound audio frames, as mu-law bytes
InboundFrames == { << 255 >>, << 0, 127 >> }
\* digit events: a digit and the terminating digit
Digits == { "1", "#" }

\* the ping frames a peer may send: every head, well-formed or not
Pings(w) == { m \in TextMessages(w) : m.type = "ping" }

\* playbackCompleted frames of a well-behaved peer after the handshake: in
\* sequence, or without a seq (which the session accepts as well)
Playback(w) ==
  IF w.lastClientSequenceNumber = 0 THEN {} ELSE
  { [json |-> TRUE, type |-> "playbackCompleted", seq |-> s,
     serverseq |-> w.lastServerSequenceNumber, id |-> w.clientSessionId,
     hasParameters |-> TRUE, parameters |-> NoOpenParameters] :
      s \in {w.lastClientSequenceNumber + 1, UndefinedNum} }

\* the text frames of a peer that opens the session once, in sequence
Handshake(w) ==
  IF w.lastClientSequenceNumber # 0 THEN {} ELSE
  { [json |-> TRUE, type |-> "open", seq |-> w.lastClientSequenceNumber + 1,
     serverseq |-> w.lastServerSequenceNumber, id |-> w.clientSessionId,
     hasParameters |-> TRUE,
     parameters |-> [conversationId |-> "conv-1", hasMedia |-> TRUE,
                     media |-> << PCMU_A >>, inputVariables |-> Undefined]] }

\* ------------------------------------------------------- observation
\* what is wrong with an inbound text frame, judged on the frame and the
\* counters alone, in the order the session examines it
Fault(w, m) ==
  IF ~ m.json THEN "json"
  ELSE IF m.seq # UndefinedNum /\ m.seq # w.lastClientSequenceNumber + 1 THEN "seq"
  ELSE IF m.serverseq # UndefinedNum /\ m.serverseq > w.lastServerSequenceNumber
       THEN "serverseq"
  ELSE IF m.id # Undefined /\ m.id # w.clientSessionId THEN "id"
  ELSE "none"

NoCall ==
  [op |-> "new", fault |-> "none", dispatched |-> "none", threw |-> FALSE,
   data |-> <<>>]

\* the world at the start of a call of operation op
Begin(op) == [Cur EXCEPT !.last = [NoCall EXCEPT !.op = op]]

\* the world at the start of processTextMessage(m)
BeginText(m) ==
  [Cur EXCEPT !.last = [NoCall EXCEPT !.op = "text", !.fault = Fault(Cur, m)]]

Bounded(w) ==
  /\ Cardinality({i \in DOMAIN w.log : w.log[i].k = "text"}) <= MaxTextFrames
  /\ w.lastServerSequenceNumber <= MaxServerSeq
  /\ w.lastClientSequenceNumber <= MaxClientSeq
  /\ w.nextByte <= MaxBytes + 1
  /\ w.flushTimers <= MaxFlushTimers
  /\ w.callbacks <= MaxCallbacks
  /\ Cardinality({i \in DOMAIN w.log : w.log[i].k = "processAudio"}) <= MaxInbound
  /\ Cardinality({i \in DOMAIN w.log : w.log[i].type \in {"audio", "silence"}})
       <= MaxStreamFrames

Do(w) == Bounded(w) /\ Commit(w)

\* -------------------------------------------------------------- Init
SessionInit ==
  /\ closed = FALSE
  /\ disconnecting = FALSE
  /\ clientSessionId \in SessionIds
  /\ conversationId = Undefined
  /\ lastServerSequenceNumber = 0
  /\ lastClientSequenceNumber = 0
  /\ inputVariables = "{}"
  /\ selectedMedia = NoMedia
  /\ isAudioPlaying = FALSE
  /\ buffer = <<>>
  /\ sendIntervalElapsed = TRUE
  /\ voiceAIAgentClient = Null
  /\ isCapturingDTMF = FALSE
  /\ dtmfService = Null
  /\ isInitializing = FALSE
  /\ ultraVoxWs = Null
  /\ initPc = "none"
  /\ noInputTimer = [timerHalted |-> FALSE, timerId |-> 0]
  /\ audioBuffer = <<>>
  /\ audioStreamingTask = FALSE
  /\ botProvider \in Providers
  /\ upstream = "none"
  /\ timeouts = {}
  /\ flushTimers = 0
  /\ log = <<>>
  /\ built = <<>>
  /\ nextByte = 1
  /\ callbacks = 0
  /\ timerPhase = "none"
  /\ last = NoCall

Init ==
  /\ SessionInit
  /\ codec = NoSample
  /\ resampler = NoResample

\* ----------------------------------------------------------- actions
\* server.ts: a text frame reaches the session only while the socket is open
ReceiveText(messages) ==
  /\ ~ closed
  /\ \E m \in messages : Do(processTextMessage(BeginText(m), m))

\* a ping frame reaches the session; its seq is kept for observation
ReceivePing ==
  /\ ~ closed
  /\ \E m \in Pings(Cur) :
       Do(processTextMessage([BeginText(m) EXCEPT !.last.op = "ping",
                                                  !.last.data = << m.seq >>], m))

\* server.ts deleteConnection on the socket's close event
TransportCloses ==
  /\ ~ closed
  /\ Do(close(Begin("close")))

\* close() is called on a session that is closed already
CloseAgain ==
  /\ closed
  /\ Do(close(Begin("closeAgain")))

\* the transport delivers a binary frame
ReceiveBinary ==
  /\ ~ closed
  /\ \E data \in InboundFrames :
       Do(processBinaryMessage([Begin("binary") EXCEPT !.last.data = data], data))

\* processBinaryMessage is called on a session that is closed already
BinaryWhenClosed ==
  /\ closed
  /\ \E data \in InboundFrames :
       Do(processBinaryMessage([Begin("binary") EXCEPT !.last.data = data], data))

\* a digit event reaches the session
ReceiveDTMF ==
  /\ ~ closed
  /\ \E digit \in Digits :
       Do(processDTMF([Begin("dtmf") EXCEPT !.last.data = << digit >>], digit))

\* processDTMF is called on a session that is closed already
DTMFWhenClosed ==
  /\ closed
  /\ \E digit \in Digits :
       Do(processDTMF([Begin("dtmf") EXCEPT !.last.data = << digit >>], digit))

\* sendAudioChunks is handed one byte sequence on a new session
HandChunks ==
  /\ log = <<>>
  /\ \E bytes \in ChunkInputs :
       Do(sendAudioChunks([Begin("chunks") EXCEPT !.last.data = bytes], bytes))

\* at least MIN_SEND_INTERVAL ms pass
Tick ==
  /\ ~ sendIntervalElapsed
  /\ Do([Begin("tick") EXCEPT !.sendIntervalElapsed = TRUE])

\* a delayed flush scheduled by sendAudio comes due
FlushTimeout ==
  /\ flushTimers > 0
  /\ Do(flushBuffer([Begin("flushTimeout") EXCEPT !.flushTimers = @ - 1]))

\* bytes nextByte .. nextByte + n - 1
NewBytes(n) == [i \in 1..n |-> nextByte + i - 1]

\* ultravox-agent.ts: a binary upstream frame is converted and passed to sendAudio
UpstreamAudio ==
  /\ upstream = "open"
  /\ \E n \in AudioLens :
       Do(sendAudio([Begin("audio") EXCEPT !.nextByte = @ + n],
                    NewBytes(n)))

\* a binary upstream frame, as the bytes of its 16-bit samples
UpstreamFrame ==
  /\ upstream = "open"
  /\ \E data \in PcmFrames :
       Do(handleUltraVoxBinary([Begin("frame") EXCEPT !.last.data = data,
                                                      !.nextByte = @ + Len(data)],
                               data))

\* the later agent passes it to sendAudioFromAgent
UpstreamAudioFromAgent ==
  /\ upstream = "open"
  /\ \E n \in AudioLens :
       Do(sendAudioFromAgent(
            [Begin("audio") EXCEPT !.nextByte = @ + n],
            NewBytes(n)))

\* a JSON control message from upstream
UpstreamMessage(types) ==
  /\ upstream = "open"
  /\ \E t \in types : Do(handleUltraVoxMessage(Begin(t), t))

\* a JSON control message from upstream reaches the later agent
UpstreamMessageLater(types) ==
  /\ upstream = "open"
  /\ \E t \in types : Do(handleUltraVoxMessageLater(Begin(t), t))

\* the fetch of createCall() settles
CreateCallReturns ==
  /\ initPc = "createCall"
  /\ \/ Do(connectWebSocket(Begin("createCall:ok")))
     \/ Do(InitializationFailed(Begin("createCall:failed")))

\* the socket's open event: clears the timeout and resolves
UpstreamOpens ==
  /\ upstream = "connecting"
  /\ Do([Begin("upstream:open")
           EXCEPT !.upstream = "open",
                  !.isInitializing = IF initPc = "connect" THEN FALSE ELSE @,
                  !.initPc = IF @ = "connect" THEN "done" ELSE @])

\* the 10 s timeout of connectWebSocket rejects; the socket is left as it is
ConnectTimeout ==
  /\ initPc = "connect"
  /\ Do(InitializationFailed(Begin("connect:timeout")))

\* the socket's error event: rejects if the promise is still pending
UpstreamError ==
  /\ upstream \in {"connecting", "open", "aborting"}
  /\ LET w == [Begin("upstream:error") EXCEPT !.upstream = "closing"]
     IN Do(IF initPc = "connect" THEN InitializationFailed(w) ELSE w)

\* the socket's close event
UpstreamCloses ==
  /\ upstream \in {"open", "closing"}
  /\ Do([Begin("upstream:close")
           EXCEPT !.upstream = "closed", !.ultraVoxWs = Null])

\* the streaming agent: the open event also starts the streaming interval
UpstreamOpensLater ==
  /\ upstream = "connecting"
  /\ Do(startContinuousAudioStreaming(
          [Begin("upstream:open")
             EXCEPT !.upstream = "open",
                    !.isInitializing = IF initPc = "connect" THEN FALSE ELSE @,
                    !.initPc = IF @ = "connect" THEN "done" ELSE @]))

\* the streaming agent: the close event also stops the streaming interval
UpstreamClosesLater ==
  /\ upstream \in {"open", "closing"}
  /\ Do(stopContinuousAudioStreaming(
          [Begin("upstream:close")
             EXCEPT !.upstream = "closed", !.ultraVoxWs = Null]))

\* the streaming interval comes due
StreamTick ==
  /\ audioStreamingTask
  /\ Do(sendAudioFrame(Begin("streamTick")))

\* an inbound audio frame that processBinaryMessage hands to the streaming
\* agent
ReceiveBinaryLater ==
  /\ ~ closed /\ ~ disconnecting
  /\ voiceAIAgentClient # Null
  /\ ~ isCapturingDTMF
  /\ \E data \in InboundFrames :
       Do(processAudioLater([Begin("binary") EXCEPT !.last.data = data], data))

\* handleNoInput(): a prompt goes upstream if the agent is connected
handleNoInput(w) ==
  IF isAgentConnected(w)
  THEN [w EXCEPT !.log = Append(@, UpstreamEntry(w, "user_message"))]
  ELSE w

\* the no-input timeout comes due and runs the callback
NoInputTimeout ==
  \E id \in timeouts :
    Do(handleNoInput([Begin("noInput")
                        EXCEPT !.timeouts = @ \ {id}, !.callbacks = @ + 1]))

\* a unit under test calls the Timer directly
TimerStart ==
  /\ voiceAIAgentClient = Null
  /\ Do(startTimer(Begin("startTimer")))

TimerStop ==
  /\ voiceAIAgentClient = Null
  /\ Do(stopTimer(Begin("stopTimer")))

TimerHalt ==
  /\ voiceAIAgentClient = Null
  /\ Do(haltTimer(Begin("haltTimer")))

TimerResume ==
  /\ voiceAIAgentClient = Null
  /\ Do(resumeTimer(Begin("resumeTimer")))

\* convertPCMUToPCM on the value converted last
Decode ==
  /\ codec.first # "none"
  /\ Len(codec.trail) < MaxTrail
  /\ (codec.first = "ulaw") = (Len(codec.trail) % 2 = 1)
  /\ codec' = [codec EXCEPT !.trail = Append(@, ulawToPcm(@[Len(@)]))]
  /\ UNCHANGED << sessionVars, resampler >>

\* convertPCMToPCMU on the value converted last
Encode ==
  /\ codec.first # "none"
  /\ Len(codec.trail) < MaxTrail
  /\ (codec.first = "pcm") = (Len(codec.trail) % 2 = 1)
  /\ codec' = [codec EXCEPT !.trail = Append(@, pcmToUlaw(@[Len(@)]))]
  /\ UNCHANGED << sessionVars, resampler >>

\* the call of resampleAudio returns
Resample ==
  /\ resampler.inputSampleRate # 0
  /\ ~ resampler.returned
  /\ resampler' = [resampler EXCEPT
                     !.output = resampleAudio(resampler.input,
                                              resampler.inputSampleRate,
                                              resampler.outputSampleRate),
                     !.returned = TRUE]
  /\ UNCHANGED << sessionVars, codec >>

\* the session protocol: every text frame, the transport closing, the
\* agent coming up and the upstream messages about the call
Next ==
  \/ ReceiveText(TextMessages(Cur))
  \/ TransportCloses
  \/ CreateCallReturns
  \/ UpstreamOpens
  \/ UpstreamMessage(CallTypes)

Spec == Init /\ [][Next]_vars

\* the agent's life cycle on an opened session: the upstream call and socket
\* failing, timing out and closing, against the transport closing
AgentNext ==
  \/ ReceiveText(Handshake(Cur))
  \/ TransportCloses
  \/ CreateCallReturns
  \/ UpstreamOpens
  \/ ConnectTimeout
  \/ UpstreamError
  \/ UpstreamCloses
  \/ UpstreamMessage(CallTypes)
  \/ UpstreamMessageLater({"call_ended", "error"})
  \/ CloseAgain

AgentSpec == Init /\ [][AgentNext]_vars

\* the audio path of one call: the handshake, agent audio, the throttle
\* interval, delayed flushes and the upstream messages about speech
AudioInit ==
  /\ Init
  /\ clientSessionId = "audiohook-7f3a"
  /\ botProvider = "UltraVox"

AudioNext ==
  \/ ReceiveText(Handshake(Cur))
  \/ TransportCloses
  \/ CreateCallReturns
  \/ UpstreamOpens
  \/ UpstreamAudio
  \/ UpstreamAudioFromAgent
  \/ Tick
  \/ FlushTimeout
  \/ UpstreamMessage(SpeechTypes)

AudioSpec == AudioInit /\ [][AudioNext]_vars

\* the delayed flush: the audio of one send interval, with the timeouts of
\* setTimeout coming due, as the event loop guarantees
FlushNext ==
  \/ ReceiveText(Handshake(Cur))
  \/ TransportCloses
  \/ CreateCallReturns
  \/ UpstreamOpens
  \/ UpstreamAudio
  \/ FlushTimeout
  \/ UpstreamMessage({"agent_started_speaking", "user_started_speaking"})

FlushSpec == AudioInit /\ [][FlushNext]_vars /\ WF_vars(FlushTimeout)

\* the mu-law codec alone: any byte, or any 16-bit sample, converted back
\* and forth
CodecInit ==
  /\ SessionInit
  /\ clientSessionId = "audiohook-7f3a"
  /\ botProvider = "UltraVox"
  /\ \/ codec \in { [first |-> "ulaw", trail |-> << x >>] : x \in Bytes }
     \/ codec \in { [first |-> "pcm", trail |-> << x >>] : x \in Samples }
  /\ resampler = NoResample

CodecNext == Decode \/ Encode

CodecSpec == CodecInit /\ [][CodecNext]_vars

\* resampleAudio alone: one call on any input and pair of rates
ResampleInit ==
  /\ SessionInit
  /\ clientSessionId = "audiohook-7f3a"
  /\ botProvider = "UltraVox"
  /\ codec = NoSample
  /\ resampler \in { [NoResample EXCEPT !.input = input,
                                         !.inputSampleRate = rates[1],
                                         !.outputSampleRate = rates[2]] :
                        input \in SampleSeqs, rates \in Rates \X Rates }

ResampleNext == Resample

ResampleSpec == ResampleInit /\ [][ResampleNext]_vars

\* the Timer alone, its methods called in any order
TimerNext ==
  \/ TimerStart
  \/ TimerStop
  \/ TimerHalt
  \/ TimerResume
  \/ NoInputTimeout

TimerSpec == Init /\ [][TimerNext]_vars

\* the no-input countdown of one call: the handshake, playbackCompleted
\* frames, the upstream messages about the user's speech, the timeout
NoInputNext ==
  \/ ReceiveText(Handshake(Cur) \cup Playback(Cur))
  \/ TransportCloses
  \/ CreateCallReturns
  \/ UpstreamOpens
  \/ UpstreamMessage({"user_started_speaking", "user_stopped_speaking"})
  \/ NoInputTimeout

NoInputSpec == AudioInit /\ [][NoInputNext]_vars

\* digit capture on one call: the handshake, the agent speaking and falling
\* silent, digits arriving, the transport closing
DtmfNext ==
  \/ ReceiveText(Handshake(Cur))
  \/ TransportCloses
  \/ CreateCallReturns
  \/ UpstreamOpens
  \/ UpstreamMessage({"agent_started_speaking", "agent_stopped_speaking"})
  \/ ReceiveDTMF
  \/ DTMFWhenClosed

DtmfSpec == AudioInit /\ [][DtmfNext]_vars

\* keep-alives on one call: the handshake, pings with every head, the
\* upstream socket opening and closing, the transport closing
PingNext ==
  \/ ReceiveText(Handshake(Cur))
  \/ ReceivePing
  \/ TransportCloses
  \/ CreateCallReturns
  \/ UpstreamOpens
  \/ UpstreamCloses

PingSpec == Init /\ [][PingNext]_vars

\* upstream audio frame by frame on one call
FrameNext ==
  \/ ReceiveText(Handshake(Cur))
  \/ TransportCloses
  \/ CreateCallReturns
  \/ UpstreamOpens
  \/ UpstreamFrame
  \/ Tick
  \/ FlushTimeout

FrameSpec == AudioInit /\ [][FrameNext]_vars

\* the streaming of inbound audio to the upstream socket
StreamNext ==
  \/ ReceiveText(Handshake(Cur))
  \/ CreateCallReturns
  \/ UpstreamOpensLater
  \/ UpstreamError
  \/ UpstreamClosesLater
  \/ ReceiveBinaryLater
  \/ StreamTick

StreamSpec == AudioInit /\ [][StreamNext]_vars

\* sendAudioChunks alone
ChunkNext ==
  \/ HandChunks

ChunkSpec == Init /\ [][ChunkNext]_vars

\* the inbound path of one call: the handshake, the call creation, customer
\* audio and digits from the transport, and the transport closing
InboundNext ==
  \/ ReceiveText(Handshake(Cur))
  \/ TransportCloses
  \/ CreateCallReturns
  \/ UpstreamOpens
  \/ ReceiveBinary
  \/ BinaryWhenClosed
  \/ ReceiveDTMF

InboundSpec == AudioInit /\ [][InboundNext]_vars

\* ------------------------------------------------- reading the log
IsText(e, type) == e.k = "text" /\ e.type = type
IsOpened(e) == IsText(e, "opened")
IsDisconnect(e, reason, info) ==
  /\ IsText(e, "disconnect")
  /\ e.parameters.reason = reason
  /\ e.parameters.info = info
IsErrorDisconnect(e) == IsText(e, "disconnect") /\ e.parameters.reason = "error"
IsBargeIn(e) == IsText(e, "event") /\ e.parameters.entity = "barge_in"
IsBinary(e) == e.k = "binary"

\* the entries a step appended to the log
NewEntries == SubSeq(log', Len(log) + 1, Len(log'))

\* the sequence numbers of the enveloped text frames written, in order
RECURSIVE WrittenSeqs(_)
WrittenSeqs(l) ==
  IF l = <<>> THEN <<>>
  ELSE (IF Head(l).k = "text" /\ Head(l).seq # 0 THEN << Head(l).seq >> ELSE <<>>)
       \o WrittenSeqs(Tail(l))

\* the bytes of the binary frames written, in order
RECURSIVE WrittenBytes(_)
WrittenBytes(l) ==
  IF l = <<>> THEN <<>>
  ELSE (IF IsBinary(Head(l)) THEN Head(l).bytes ELSE <<>>) \o WrittenBytes(Tail(l))

Elements(q) == { q[i] : i \in DOMAIN q }
StrictlyIncreasing(q) == \A i \in 1..(Len(q) - 1) : q[i] < q[i + 1]

\* ------------------------------------------------------------ claims
\* C1: every inbound text message whose seq is not lastClientSeq + 1 makes
\* processTextMessage write exactly one disconnect with reason "error" and
\* dispatch the message to no handler, whatever state the session is in.
C1_SeqMismatchDisconnects ==
  [][ (last'.op = "text" /\ last'.fault = "seq")
        => /\ last'.dispatched = "none"
           /\ Len(NewEntries) = 1
           /\ IsErrorDisconnect(NewEntries[1]) ]_vars

\* C2: server sequence numbers come from createMessage alone: the k-th
\* envelope built carries seq k (the first carries 1), the counter equals the
\* number of envelopes built, and the enveloped frames written carry strictly
\* increasing numbers among those built.
C2_ServerSeqContiguous ==
  /\ lastServerSequenceNumber = Len(built)
  /\ \A i \in DOMAIN built : built[i] = i
  /\ StrictlyIncreasing(WrittenSeqs(log))
  /\ Elements(WrittenSeqs(log)) \subseteq Elements(built)

\* three envelopes built, one of them never written (the session had closed)
C2_Witness ==
  /\ Len(built) >= 3
  /\ Len(WrittenSeqs(log)) = 2

C9_NoOpenedAfterUnsupported ==
  \A i \in DOMAIN log :
    IsDisconnect(log[i], "error", "No supported media type was found.")
      => \A j \in DOMAIN log :
           j > i => ~ IsOpened(log[j]) /\ log[j].k # "createCall"

\* C3: sendAudio on a session that is not closed: if the buffered total
\* after appending the input is below the minimum frame size, the call
\* writes no frame and schedules a flush; otherwise it writes the whole
\* buffer at once, in chunks none larger than the maximum frame size.
C3_SendAudioThreshold ==
  [][ (last'.op = "audio" /\ ~ closed)
        => LET offered == [i \in 1..(nextByte' - nextByte) |-> nextByte + i - 1]
               total == TotalLength(buffer) + Len(offered)
           IN IF total < MIN_BINARY_MESSAGE_SIZE
              THEN /\ NewEntries = <<>>
                   /\ flushTimers' = flushTimers + 1
              ELSE /\ buffer' = <<>>
                   /\ WrittenBytes(NewEntries) = Concat(buffer) \o offered
                   /\ \A i \in DOMAIN NewEntries :
                         /\ IsBinary(NewEntries[i])
                         /\ Len(NewEntries[i].bytes) <= MAXIMUM_BINARY_MESSAGE_SIZE ]_vars

\* C4: outbound audio is dropped only by a barge-in: every chunk offered to
\* sendAudio or sendAudioFromAgent on a session that is not closed is in the
\* buffer or on the transport when the call returns, and a buffered byte
\* leaves the buffer only by being written or by sendBargeIn clearing it.
C4_AudioNeverDropped ==
  [][ /\ (last'.op = "audio" /\ ~ closed)
          => \A b \in nextByte..(nextByte' - 1) :
               b \in Elements(Concat(buffer')) \cup Elements(WrittenBytes(NewEntries))
      /\ \A b \in Elements(Concat(buffer)) :
            \/ b \in Elements(Concat(buffer')) \cup Elements(WrittenBytes(NewEntries))
            \/ (last'.op = "user_started_speaking" /\ built' # built) ]_vars

\* C5: the binary frames written, concatenated in the order written, are an
\* order-preserving subsequence of the bytes offered to sendAudio: no byte is
\* written twice and no two bytes are swapped (byte i is the i-th offered).
C5_WrittenInOfferedOrder ==
  /\ StrictlyIncreasing(WrittenBytes(log))
  /\ \A b \in Elements(WrittenBytes(log)) : b \in 1..(nextByte - 1)

\* a delayed flush and a chunked write both happened: three frames, the
\* first holding a single byte, a later one a full maximum-size chunk
C5_Witness ==
  \E i, j \in DOMAIN log :
    /\ i < j
    /\ IsBinary(log[i]) /\ Len(log[i].bytes) = 1
    /\ IsBinary(log[j]) /\ Len(log[j].bytes) = MAXIMUM_BINARY_MESSAGE_SIZE
    /\ last.op = "audio"

\* C6: sendBargeIn empties the buffer before the barge_in event is written,
\* whatever the buffer holds: the transport sees the event with nothing
\* pending, and the buffer is empty when the call returns.
C6_BargeInClearsFirst ==
  [][ (last'.op = "user_started_speaking" /\ built' # built)
        => /\ buffer' = <<>>
           /\ \A i \in DOMAIN NewEntries :
                 IsBargeIn(NewEntries[i]) /\ NewEntries[i].pending = 0 ]_vars

\* a barge-in found audio in the buffer: a chunk was buffered and its flush
\* is still pending, no frame was ever written, and the buffer is empty
C6_Witness ==
  /\ last.op = "user_started_speaking"
  /\ log # <<>> /\ IsBargeIn(log[Len(log)])
  /\ flushTimers > 0
  /\ nextByte > 1
  /\ WrittenBytes(log) = <<>>
  /\ buffer = <<>>

\* no frame written after a barge_in event holds a byte offered before it
NoStaleAudio(l) ==
  \A i \in DOMAIN l :
    IsBargeIn(l[i])
      => \A j \in (i + 1)..Len(l) :
           IsBinary(l[j]) => \A b \in Elements(l[j].bytes) : b >= l[i].mark

\* C10: upstream user_started_speaking while audio is playing: a barge_in
\* event is built and (the session not being closed) written, the buffer is
\* cleared, isAudioPlaying is false afterwards, and no byte buffered before
\* the interruption is written after it, a delayed flush included.
C10_BargeInOnUserSpeech ==
  [][ /\ NoStaleAudio(log')
      /\ (last'.op = "user_started_speaking" /\ isAudioPlaying)
          => /\ built' = Append(built, lastServerSequenceNumber + 1)
             /\ ~ closed => (Len(NewEntries) = 1 /\ IsBargeIn(NewEntries[1]))
             /\ buffer' = <<>>
             /\ ~ isAudioPlaying' ]_vars

\* audio was pending at the interruption and audio offered later was written
\* after the barge_in event
C10_Witness ==
  /\ ~ isAudioPlaying
  /\ \E i, j \in DOMAIN log :
        /\ i < j
        /\ IsBargeIn(log[i]) /\ log[i].mark > 1
        /\ \A k \in 1..(i - 1) : ~ IsBinary(log[k])
        /\ IsBinary(log[j])

\* C7: after halt(), calls of start(), interleaved with stop() in any
\* number, run no callback and leave no timeout pending, until resume() has
\* been called and start() after it.
C7_HaltedTimerSilent ==
  [][ /\ timerPhase \in {"halted", "resumed"} => callbacks' = callbacks
      /\ timerPhase' \in {"halted", "resumed"} => timeouts' = {} ]_vars

\* the timer ran its callback, was halted, and start() was called on it
C7_Witness ==
  /\ timerPhase = "halted"
  /\ last.op = "startTimer"
  /\ callbacks > 0

\* C11: for each of the 256 byte values x, encoding the decoded value gives
\* x back: pcmToUlaw(ulawToPcm(x)) = x.
C11_ByteRoundTrip ==
  (codec.first = "ulaw" /\ Len(codec.trail) >= 3)
    => codec.trail[3] = codec.trail[1]

\* C12: for every 16-bit sample s the decoded value of its encoding is a
\* fixed point of encoding and decoding again:
\* ulawToPcm(pcmToUlaw(ulawToPcm(pcmToUlaw(s)))) = ulawToPcm(pcmToUlaw(s)).
C12_SampleRoundTripStable ==
  (codec.first = "pcm" /\ Len(codec.trail) >= 5)
    => codec.trail[5] = codec.trail[3]

\* C13: resampling from a rate to the same rate returns the input sample
\* sequence unchanged, for every input, the empty one included.
C13_SameRateIdentity ==
  (resampler.returned /\ resampler.inputSampleRate = resampler.outputSampleRate)
    => resampler.output = resampler.input

\* a call with equal rates, other than 8000 Hz, returned a full-length input
C13_Witness ==
  /\ resampler.returned
  /\ resampler.inputSampleRate = 16000
  /\ resampler.outputSampleRate = 16000
  /\ Len(resampler.input) = MaxSamples
  /\ resampler.output = resampler.input

\* C14: a failure while an inbound text message is processed, in JSON.parse
\* or inside a handler, is caught by processTextMessage and answered with
\* exactly one disconnect with reason "error"; it is never swallowed.
C14_FailureBecomesDisconnect ==
  [][ (last'.op = "text" /\ last'.threw)
        => /\ Len(NewEntries) = 1
           /\ IsErrorDisconnect(NewEntries[1]) ]_vars

\* C15: an inbound message whose serverseq is greater than the last server
\* sequence number sent, or whose id is not the session id, is answered with
\* exactly one disconnect with reason "error" and is not dispatched.
C15_ForeignMessageDisconnects ==
  [][ (last'.op = "text" /\ last'.fault \in {"serverseq", "id"})
        => /\ Len(NewEntries) = 1
           /\ IsErrorDisconnect(NewEntries[1])
           /\ last'.dispatched = "none" ]_vars

\* C16: sendDisconnect is idempotent under racing triggers: whatever the
\* order of an upstream call_ended or error and a protocol violation on the
\* telephony side, at most one disconnect message is written per session.
C16_AtMostOneDisconnect ==
  Cardinality({i \in DOMAIN log : IsText(log[i], "disconnect")}) <= 1

\* the targets of the close calls in l, in order
RECURSIVE CloseTargets(_)
CloseTargets(l) ==
  IF l = <<>> THEN <<>>
  ELSE (IF Head(l).k = "close" THEN << Head(l).type >> ELSE <<>>)
       \o CloseTargets(Tail(l))

\* C17: close() is idempotent: the first call closes the agent first, if
\* there is one, then the transport, and sets closed; a call on a closed
\* session closes neither the agent nor the transport and changes nothing.
C17_CloseIdempotent ==
  [][ last'.op \in {"close", "closeAgain"}
        => /\ closed'
           /\ \A i \in DOMAIN NewEntries : NewEntries[i].k = "close"
           /\ CloseTargets(NewEntries) =
                 (IF closed THEN <<>>
                  ELSE IF voiceAIAgentClient # Null THEN << "agent", "transport" >>
                  ELSE << "transport" >>)
           /\ closed => UNCHANGED << voiceAIAgentClient, ultraVoxWs, upstream,
                                     noInputTimer, timeouts, buffer >> ]_vars

\* close() was called again on a closed session that has an agent, and the
\* agent and the transport were each closed once, the agent first
C17_Witness ==
  /\ last.op = "closeAgain"
  /\ closed
  /\ voiceAIAgentClient # Null
  /\ CloseTargets(log) = << "agent", "transport" >>

\* the step is a failure of the upstream call creation or of the connection
\* of the media socket: the fetch fails, the connect timeout comes due, or
\* the socket reports an error while the connection is awaited
InitializationFails ==
  \/ last'.op \in {"createCall:failed", "connect:timeout"}
  \/ last'.op = "upstream:error" /\ initPc = "connect"

\* C18: on any failure during the upstream call creation or the connection
\* of the media socket the agent calls sendDisconnect("error", "Failed to
\* initialize AI service", {}), which writes that one message unless the
\* session is closed, and no other attempt is started, then or later.
C18_InitFailureReported ==
  [][ /\ InitializationFails
        => /\ disconnecting'
           /\ ~ isInitializing' /\ initPc' = "done"
           /\ IF closed THEN NewEntries = <<>>
              ELSE /\ Len(NewEntries) = 1
                   /\ IsDisconnect(NewEntries[1], "error",
                                   "Failed to initialize AI service")
      /\ initPc = "done"
        => /\ initPc' = "done"
           /\ \A i \in DOMAIN NewEntries : NewEntries[i].k # "createCall" ]_vars

\* the connect timeout came due on an open session: the disconnect is the
\* last message written and the call was created once
C18_Witness ==
  /\ last.op = "connect:timeout"
  /\ ~ closed
  /\ log # <<>>
  /\ IsDisconnect(log[Len(log)], "error", "Failed to initialize AI service")
  /\ Cardinality({i \in DOMAIN log : log[i].k = "createCall"}) = 1

\* C19: processBinaryMessage hands an inbound audio frame, unchanged, to the
\* agent's processAudio exactly when the session is neither disconnecting
\* nor closed, no DTMF capture is active and an agent exists; in every other
\* case the frame is dropped: nothing is called and nothing is kept.
C19_InboundAudioForwarded ==
  [][ last'.op = "binary"
        => IF /\ ~ disconnecting /\ ~ closed
              /\ ~ isCapturingDTMF
              /\ voiceAIAgentClient # Null
           THEN /\ Len(NewEntries) = 1
                /\ NewEntries[1].k = "processAudio"
                /\ NewEntries[1].bytes = last'.data
                /\ UNCHANGED buffer
           ELSE /\ log' = log
                /\ UNCHANGED << closed, disconnecting, buffer, isCapturingDTMF,
                                dtmfService, voiceAIAgentClient, ultraVoxWs,
                                upstream, timeouts, flushTimers, built,
                                lastServerSequenceNumber >> ]_vars

\* a frame was handed to the agent, and a later frame, offered during a DTMF
\* capture, was not
C19_Witness ==
  /\ last.op = "binary"
  /\ isCapturingDTMF
  /\ ~ disconnecting /\ ~ closed
  /\ voiceAIAgentClient # Null
  /\ Cardinality({i \in DOMAIN log : log[i].k = "processAudio"}) = 1

\* C20: selectedMedia and inputVariables are set once in the life of a
\* session: after the first accepted open no later message, a second open
\* included, changes either of them.
C20_MediaSetOnce ==
  [][ selectedMedia # NoMedia
        => UNCHANGED << selectedMedia, inputVariables >> ]_vars

\* C21: teardown cancels what is pending: after Session.close() no delayed
\* flush scheduled before it writes anything to the transport, and the
\* no-input callback does not run.
C21_TeardownCancels ==
  [][ closed => /\ last'.op = "flushTimeout" => NewEntries = <<>>
                /\ callbacks' = callbacks ]_vars

\* C22: for every byte sequence handed to sendAudioChunks the binary frames
\* written are non-empty, each at most MAXIMUM_BINARY_MESSAGE_SIZE bytes
\* long, and their concatenation in write order is the input.
C22_ChunksCoverInput ==
  last.op = "chunks"
    => /\ \A i \in DOMAIN log :
            /\ IsBinary(log[i])
            /\ Len(log[i].bytes) >= 1
            /\ Len(log[i].bytes) <= MAXIMUM_BINARY_MESSAGE_SIZE
       /\ WrittenBytes(log) = last.data

\* an input of exactly two full frames was written as two frames
C22_Witness ==
  /\ last.op = "chunks"
  /\ Len(last.data) = 2 * MAXIMUM_BINARY_MESSAGE_SIZE
  /\ Len(log) = 2
  /\ WrittenBytes(log) = last.data

\* C23: bytes that sendAudio leaves in the buffer, below the minimum size,
\* are eventually written to the transport by the delayed flush even if no
\* further audio arrives, unless a barge-in clears them or the session
\* closes first: a non-empty buffer is eventually empty, and a byte leaves
\* the buffer only by being written or by a barge-in.
C23_BufferedEventuallyWritten ==
  /\ (buffer # <<>>) ~> (buffer = <<>> \/ closed)
  /\ [][ ~ closed
           => \A b \in Elements(Concat(buffer)) :
                \/ b \in Elements(Concat(buffer'))
                \/ b \in Elements(WrittenBytes(NewEntries))
                \/ \E i \in DOMAIN NewEntries : IsBargeIn(NewEntries[i]) ]_vars

\* the delayed flush wrote a buffered byte on an open session
C23_Witness ==
  /\ last.op = "flushTimeout"
  /\ ~ closed
  /\ buffer = <<>>
  /\ log # <<>> /\ IsBinary(log[Len(log)])
  /\ Len(log[Len(log)].bytes) < MIN_BINARY_MESSAGE_SIZE

\* C24: inbound client sequence numbers are contiguous: lastClientSeq
\* changes only when a message passes the sequence, serverseq and identity
\* checks, and then grows by exactly 1; a message rejected by one of these
\* checks, or not parsed, leaves it as it was.
C24_ClientSeqContiguous ==
  [][ /\ lastClientSequenceNumber' \in
           {lastClientSequenceNumber, lastClientSequenceNumber + 1}
      /\ (last'.op = "text" /\ last'.fault # "none")
           => lastClientSequenceNumber' = lastClientSequenceNumber ]_vars

\* C25: an upstream call_ended message makes the agent call sendDisconnect
\* with reason "completed", and an upstream error message makes it call
\* sendDisconnect with reason "error": the session is disconnecting
\* afterwards and, unless it is closed, that one disconnect is written.
C25_UpstreamEndDisconnects ==
  [][ \A t \in {"call_ended", "error"} :
        last'.op = t
          => /\ disconnecting'
             /\ IF closed THEN NewEntries = <<>>
                ELSE /\ Len(NewEntries) = 1
                     /\ IsText(NewEntries[1], "disconnect")
                     /\ NewEntries[1].parameters.reason =
                          (IF t = "call_ended" THEN "completed" ELSE "error") ]_vars

\* C26: on upstream agent_started_speaking isAudioPlaying becomes true and
\* nothing is written; on agent_stopped_speaking everything in the buffer is
\* written to the transport as binary frames, the buffer is empty afterwards
\* and isAudioPlaying becomes false.
C26_AgentSpeechFlags ==
  [][ /\ last'.op = "agent_started_speaking"
        => /\ isAudioPlaying'
           /\ NewEntries = <<>>
           /\ buffer' = buffer
      /\ last'.op = "agent_stopped_speaking"
        => /\ ~ isAudioPlaying'
           /\ buffer' = <<>>
           /\ \A i \in DOMAIN NewEntries : IsBinary(NewEntries[i])
           /\ WrittenBytes(NewEntries) = Concat(buffer) ]_vars

\* agent_stopped_speaking found a short chunk in the buffer and wrote it,
\* ahead of the delayed flush that is still pending
C26_Witness ==
  /\ last.op = "agent_stopped_speaking"
  /\ ~ isAudioPlaying
  /\ buffer = <<>>
  /\ flushTimers > 0
  /\ Len(WrittenBytes(log)) \in 1..(MIN_BINARY_MESSAGE_SIZE - 1)

\* C27: between an upstream user_started_speaking and the next
\* user_stopped_speaking no no-input timeout is pending, the no-input
\* callback does not run and no prompt is sent upstream, whatever
\* playbackCompleted messages arrive in between.
C27_NoCountdownWhileSpeaking ==
  [][ /\ timerPhase = "halted"
        => /\ callbacks' = callbacks
           /\ \A i \in DOMAIN NewEntries : NewEntries[i].k # "upstream"
      /\ timerPhase' = "halted" => timeouts' = {} ]_vars

\* the countdown ran out once and prompted the agent; then the user started
\* speaking and a playbackCompleted message was dispatched meanwhile
C27_Witness ==
  /\ timerPhase = "halted"
  /\ last.op = "text" /\ last.dispatched = "playbackCompleted"
  /\ callbacks > 0
  /\ \E i \in DOMAIN log : log[i].k = "upstream"
  /\ timeouts = {}

\* C28: stop() cancels the pending timeout and leaves the halted flag as it
\* was; resume() clears the flag and cancels the pending timeout without
\* scheduling another, so that no callback runs after resume() until a
\* later start(): with nothing pending no callback runs, and only start()
\* makes a timeout pending.
C28_TimerFrame ==
  [][ /\ last'.op = "stopTimer"
        => /\ timeouts' = timeouts \ {noInputTimer.timerId}
           /\ timeouts' = {}
           /\ noInputTimer'.timerId = 0
           /\ noInputTimer'.timerHalted = noInputTimer.timerHalted
      /\ last'.op = "resumeTimer"
        => /\ timeouts' = timeouts \ {noInputTimer.timerId}
           /\ timeouts' = {}
           /\ noInputTimer'.timerId = 0
           /\ ~ noInputTimer'.timerHalted
      /\ timeouts = {}
        => /\ callbacks' = callbacks
           /\ timeouts' # {} => last'.op = "startTimer" ]_vars

\* the callback ran, the timer was halted, and resume() has just been called
C28_Witness ==
  /\ last.op = "resumeTimer"
  /\ timerPhase = "resumed"
  /\ ~ noInputTimer.timerHalted
  /\ timeouts = {}
  /\ callbacks > 0

IsTranscript(e) == IsText(e, "event") /\ e.parameters.entity = "transcript"

\* C29: processDTMF ignores the digit while the session is disconnecting or
\* closed; while audio is playing it ignores the digit and discards the
\* collector; otherwise it hands the digit to the collector, and when the
\* collector completes, sendTranscript is called once (one transcript event
\* is written if a channel was negotiated) and capture mode ends.
C29_DigitRouting ==
  [][ last'.op = "dtmf"
        => IF disconnecting \/ closed
           THEN /\ NewEntries = <<>>
                /\ UNCHANGED << isCapturingDTMF, dtmfService, built >>
           ELSE IF isAudioPlaying
           THEN /\ NewEntries = <<>>
                /\ dtmfService' = Null
                /\ UNCHANGED << isCapturingDTMF, built >>
           ELSE IF last'.data = << "#" >>
           THEN /\ dtmfService' = "Complete"
                /\ ~ isCapturingDTMF'
                /\ IF selectedMedia.channels = <<>>
                   THEN NewEntries = <<>>
                   ELSE Len(NewEntries) = 1 /\ IsTranscript(NewEntries[1])
           ELSE /\ dtmfService' = "Collecting"
                /\ isCapturingDTMF'
                /\ NewEntries = <<>> ]_vars

\* a capture of two digits completed on an opened session: the transcript is
\* the last frame written and capture mode has ended
C29_Witness ==
  /\ last.op = "dtmf" /\ last.data = << "#" >>
  /\ dtmfService = "Complete"
  /\ ~ isCapturingDTMF
  /\ log # <<>> /\ IsTranscript(log[Len(log)])

IsTextEntry(e) == e.k = "text"
IsUpstream(e) == e.k = "upstream"

\* what sendKeepAlive does for the ping of the step: one pong echoing the
\* ping's seq under the next server seq, and one upstream ping exactly when
\* the session has an agent whose upstream socket is open
KeepAliveSent ==
  LET texts == SelectSeq(NewEntries, IsTextEntry)
      ups == SelectSeq(NewEntries, IsUpstream)
  IN /\ Len(texts) = 1
     /\ IsText(texts[1], "pong")
     /\ texts[1].clientseq = last'.data[1]
     /\ texts[1].seq = lastServerSequenceNumber + 1
     /\ Len(ups) = (IF voiceAIAgentClient # Null /\ isAgentConnected(Cur)
                    THEN 1 ELSE 0)
     /\ \A i \in DOMAIN ups : ups[i].type = "ping"

\* C30: every ping that carries a seq and passes the sequence, serverseq and
\* identity checks triggers sendKeepAlive: exactly one pong is written, its
\* clientseq the ping's seq and its seq the next server sequence number, and
\* a keep-alive goes upstream exactly when the agent's socket is connected.
C30_PingAnswered ==
  [][ (/\ last'.op = "ping"
       /\ last'.fault = "none"
       /\ last'.data # << UndefinedNum >>) => KeepAliveSent ]_vars

\* the same of the pings that reach PingMessageHandler
DispatchedPingAnswered ==
  [][ (last'.op = "ping" /\ last'.dispatched = "ping") => KeepAliveSent ]_vars

\* the upstream calls created so far
CallsCreated(l) == Cardinality({i \in DOMAIN l : l[i].k = "createCall"})

\* C31: initializeVoiceAgent is idempotent: however many open messages are
\* accepted, at most one agent is constructed and at most one upstream call
\* is created; once there is an agent it is never replaced; and when the
\* factory rejects the provider, the open that was answered with opened is
\* followed by a disconnect with reason "error" and no agent exists.
C31_AgentCreatedOnce ==
  [][ /\ CallsCreated(log') <= 1
      /\ voiceAIAgentClient # Null
           => /\ voiceAIAgentClient' = voiceAIAgentClient
              /\ CallsCreated(log') = CallsCreated(log)
      /\ (/\ last'.dispatched = "open"
          /\ \E i \in DOMAIN NewEntries : IsOpened(NewEntries[i])
          /\ voiceAIAgentClient = Null)
           => IF FactorySupports(botProvider)
              THEN /\ voiceAIAgentClient' # Null
                   /\ CallsCreated(log') = 1
              ELSE /\ voiceAIAgentClient' = Null
                   /\ CallsCreated(log') = 0
                   /\ IsDisconnect(NewEntries[Len(NewEntries)], "error",
                                   "Failed to initialize AI service") ]_vars

\* a second open message was accepted on a session that has its agent: two
\* opened messages were written and one upstream call was created
C31_Witness ==
  /\ last.dispatched = "open"
  /\ voiceAIAgentClient # Null
  /\ CallsCreated(log) = 1
  /\ Cardinality({i \in DOMAIN log : IsOpened(log[i])}) = 2

\* UltraVoxAgent.close() has been called
AgentClosed == \E i \in DOMAIN log : log[i].k = "close" /\ log[i].type = "agent"

\* C32: once the agent's close() has been called, the agent holds no
\* upstream socket and none is connecting or open, whatever was pending
\* (the call creation or the socket's connect) when close() ran.
C32_ClosedAgentReleased ==
  AgentClosed => (ultraVoxWs = Null /\ upstream \notin {"connecting", "open"})

\* the catch block of initializeUltraVoxCall has reported a failure
InitFailureReported ==
  /\ voiceAIAgentClient # Null
  /\ \E i \in DOMAIN log :
       IsDisconnect(log[i], "error", "Failed to initialize AI service")

\* C33: after the upstream initialization has failed (the call creation, the
\* socket's error, or the 10 s connect timeout) and the failure has been
\* reported, the agent is never connected, so that nothing (audio,
\* keep-alive, prompt) can go upstream for that call.
C33_InitFailureTerminal == InitFailureReported => ~ isAgentConnected(Cur)

\* C34: the codec path does not raise: for every upstream binary frame, of
\* odd length too, the conversion completes with one byte in 0..255 for each
\* 16-bit sample, and (the session open and not throttled) these bytes are
\* handed to the session, which buffers or writes them.
C34_CodecNeverRaises ==
  [][ last'.op = "frame"
        => /\ ~ last'.threw
           /\ (~ closed /\ ~ Throttled(Cur))
                => \E pcmu \in [1..(Len(last'.data) \div 2) -> Bytes] :
                     WrittenBytes(NewEntries) \o Concat(buffer')
                       = Concat(buffer) \o pcmu ]_vars

\* the same of the frames of even length
EvenFramesForwarded ==
  [][ (last'.op = "frame" /\ Len(last'.data) % 2 = 0)
        => /\ ~ last'.threw
           /\ (~ closed /\ ~ Throttled(Cur))
                => WrittenBytes(NewEntries) \o Concat(buffer')
                     = Concat(buffer) \o convertPCMToPCMU(last'.data) ]_vars

\* C35: the lifecycle only moves forward: once disconnecting is true it
\* stays true, and no step afterwards writes an opened message or creates
\* a VoiceAgent.
C35_LifecycleForward ==
  [][ disconnecting
        => /\ disconnecting'
           /\ \A i \in DOMAIN NewEntries : ~ IsOpened(NewEntries[i])
           /\ voiceAIAgentClient = Null => voiceAIAgentClient' = Null ]_vars

\* C36: once closed is true no frame, text or binary, is written to the
\* call-control transport, by a delayed flush scheduled before the close
\* either.
C36_NothingWrittenAfterClose ==
  [][ closed
        => \A i \in DOMAIN NewEntries :
             ~ IsTextEntry(NewEntries[i]) /\ ~ IsBinary(NewEntries[i]) ]_vars

\* the seq of every text frame written, in order; 0 for a frame without one
RECURSIVE TextSeqs(_)
TextSeqs(l) ==
  IF l = <<>> THEN <<>>
  ELSE (IF IsTextEntry(Head(l)) THEN << Head(l).seq >> ELSE <<>>)
       \o TextSeqs(Tail(l))

\* C37: every text frame written to the call-control transport carries the
\* envelope built by createMessage: the seq values of the text frames are
\* 1, 2, 3, ... in the order of writing, none missing, repeated or absent.
C37_TextFramesEnveloped ==
  \A i \in DOMAIN TextSeqs(log) : TextSeqs(log)[i] = i

\* the samples buffered by the calls of processAudio so far, in arrival order
RECURSIVE Arrived(_)
Arrived(l) ==
  IF l = <<>> THEN <<>>
  ELSE (IF Head(l).k = "processAudio" /\ Head(l).type = "sent"
        THEN Resampled(Head(l).bytes) ELSE <<>>) \o Arrived(Tail(l))

\* the samples of the frames taken from the buffer and sent, in order
RECURSIVE Streamed(_)
Streamed(l) ==
  IF l = <<>> THEN <<>>
  ELSE (IF IsUpstream(Head(l)) /\ Head(l).type = "audio"
        THEN Head(l).bytes ELSE <<>>) \o Streamed(Tail(l))

\* C38: while the upstream socket is connected each streaming tick sends
\* exactly one frame of frameSize samples: the oldest frameSize buffered
\* samples when that many are buffered, otherwise a frame of zeros with the
\* buffer unchanged; and under every interleaving of processAudio and ticks
\* the samples sent followed by the samples still buffered are the samples
\* that arrived, in arrival order.
C38_StreamingTicks ==
  [][ /\ (last'.op = "streamTick" /\ isAgentConnected(Cur))
           => /\ Len(NewEntries) = 1
              /\ IsUpstream(NewEntries[1])
              /\ Len(NewEntries[1].bytes) = frameSize
              /\ IF Len(audioBuffer) >= frameSize
                 THEN /\ NewEntries[1].bytes = SubSeq(audioBuffer, 1, frameSize)
                      /\ NewEntries[1].type = "audio"
                      /\ audioBuffer'
                           = SubSeq(audioBuffer, frameSize + 1, Len(audioBuffer))
                 ELSE /\ \A i \in 1..frameSize : NewEntries[1].bytes[i] = 0
                      /\ NewEntries[1].type = "silence"
                      /\ audioBuffer' = audioBuffer
      /\ Streamed(log') \o audioBuffer' = Arrived(log') ]_vars

\* a frame of zeros was sent while too little was buffered, then a frame
\* taken from the buffer, and samples that arrived later are still buffered
C38_Witness ==
  /\ last.op = "streamTick"
  /\ \E i, j \in DOMAIN log :
       /\ i < j
       /\ IsUpstream(log[i]) /\ log[i].type = "silence"
       /\ IsUpstream(log[j]) /\ log[j].type = "audio"
  /\ audioBuffer # <<>>

\* C39: whenever isCapturingDTMF is true a digit collector is in progress:
\* dtmfService is set and not complete.
C39_CaptureHasCollector == isCapturingDTMF => dtmfService = "Collecting"

\* C40: at most one callback schedule is pending, none is pending while the
\* timer is halted, and the timer is single-shot: a callback runs only for
\* a pending schedule and uses it up, so that start() calls in a row, which
\* leave one schedule pending, lead to one invocation.
C40_SingleSchedule ==
  [][ /\ Cardinality(timeouts') <= 1
      /\ noInputTimer'.timerHalted => timeouts' = {}
      /\ timeouts' # {} => timeouts' = {noInputTimer'.timerId}
      /\ callbacks' # callbacks
           => /\ callbacks' = callbacks + 1
              /\ timeouts # {}
              /\ timeouts' = {} ]_vars

\* start() on a timer whose callback has run before and which was halted
\* and resumed since: exactly one schedule is pending
C40_Witness ==
  /\ last.op = "startTimer"
  /\ callbacks > 0
  /\ timerPhase = "started"
  /\ ~ noInputTimer.timerHalted
  /\ timeouts = {noInputTimer.timerId}

====
